---- MODULE Spec2Model ----
(***************************************************************************)
(* Cross-store query equivalence and benchmarking engine of the movie      *)
(* catalog application (src/app.py, src/backend/api/compare_routes.py).    *)
(*                                                                         *)
(* Spec        : the request handlers benchmark_run, combined_search and   *)
(*               user_advanced_search as a state machine, one step per     *)
(*               engine call.                                              *)
(* SpecReduce  : calc_metrics, the statistics reducer, on bounded sample   *)
(*               lists.                                                    *)
(* SpecCompare : the comparison summary of compare_top_movies.             *)
(* SpecSearch  : search_postgres and search_mongo on a small catalog held  *)
(*               consistently by both stores.                              *)
(*                                                                         *)
(* Durations are integers in ticks of 0.0002 ms; reported latencies are    *)
(* integers in units of 0.001 ms (three decimals), reported ops/sec are    *)
(* integers in units of 0.01 (two decimals).                               *)
(***************************************************************************)
EXTENDS Integers, Sequences, FiniteSets, TLC

VARIABLES
    pc,                 \* position of the request handler
    data,               \* benchmark_run: the JSON body as received (raw values)
    args,               \* interactive search: request.args as received (raw values)
    runs,               \* benchmark_run: clamped number of timed runs
    limit,              \* benchmark_run: clamped result limit
    i,                  \* loop counter of the current warm-up / measure loop
    movie_id,           \* benchmark_run: deep_fetch movie id (raw, then int)
    pg_cursor,          \* "none" | "open" | "closed": the cursor of this request
    pg_latencies,       \* timed samples of the relational engine (ticks)
    mongo_latencies,    \* timed samples of the document engine (ticks)
    pg_result_count,
    mongo_result_count,
    pg_explain,
    mongo_explain,
    executed,           \* engine calls issued in this request, per engine and phase
    lastCall,           \* the engine call issued by the last step
    failure,            \* engine and phase of the call that raised, if any
    response,           \* the HTTP response of the request
    samples,            \* SpecReduce: input of calc_metrics
    metrics,            \* SpecReduce: output of calc_metrics
    times,              \* SpecCompare: the two measured times
    comparison,         \* SpecCompare: the comparison summary or the error
    catalog,            \* SpecSearch: the catalog both stores were loaded from
    filter,             \* SpecSearch: the filter of the current search
    pg_rows,            \* SpecSearch: rows returned by search_postgres
    mongo_rows,         \* SpecSearch: rows returned by search_mongo
    mongo_aggregated,   \* SpecSearch: search_mongo executed its aggregation pipeline
    conn_state,         \* the process-wide relational connection: "ok" | "aborted"
    session,            \* SpecSession: session['db_type'], or unset
    DEFAULT_DB_TYPE,    \* SpecSession: os.getenv('DB_TYPE', 'postgres').lower()
    form,               \* SpecSession: db_type field of the last switch_database form
    route_data,         \* SpecCompare: JSON body of the last /benchmark request
    route_response,     \* SpecCompare: its response
    mongo_connection,   \* SpecSingleton: the global _mongo_connection (0 is None)
    thread_pc,          \* SpecSingleton: position of each thread in get_mongo_connection
    thread_got,         \* SpecSingleton: the instance each thread's last call returned
    instances,          \* SpecSingleton: MongoDBConnection objects constructed so far
    live                \* SpecSingleton: instances constructed since the last close

benchVars == <<pc, data, args, runs, limit, i, movie_id, pg_cursor, pg_latencies,
               mongo_latencies, pg_result_count, mongo_result_count, pg_explain,
               mongo_explain, executed, lastCall, failure, response>>
reduceVars == <<samples, metrics>>
compareVars == <<times, comparison>>
searchVars == <<catalog, filter, pg_rows, mongo_rows, mongo_aggregated>>
sessionVars == <<session, DEFAULT_DB_TYPE, form>>
routeVars == <<route_data, route_response>>
singletonVars == <<mongo_connection, thread_pc, thread_got, instances, live>>
vars == <<benchVars, reduceVars, compareVars, searchVars, conn_state, sessionVars,
          routeVars, singletonVars>>

None == "None"

\* a result not computed yet
Pending == [pending |-> TRUE]

\* calc_metrics returns None for an empty sample list
NoMetrics == [none |-> TRUE]

(***************************************************************************)
(* Arithmetic helpers                                                      *)
(***************************************************************************)
Min(a, b) == IF a <= b THEN a ELSE b
Max(a, b) == IF a >= b THEN a ELSE b

\* round(p / q) to the nearest integer, ties to even (Python's round), p >= 0, q > 0
RoundDiv(p, q) ==
    LET f == p \div q
        r == p % q
    IN  IF 2 * r < q THEN f
        ELSE IF 2 * r > q THEN f + 1
        ELSE IF f % 2 = 0 THEN f ELSE f + 1

RECURSIVE SumSeq(_)
SumSeq(s) == IF s = <<>> THEN 0 ELSE Head(s) + SumSeq(Tail(s))

MaxSeq(s) == CHOOSE x \in {s[k] : k \in 1..Len(s)} : \A k \in 1..Len(s) : s[k] <= x
MinSeq(s) == CHOOSE x \in {s[k] : k \in 1..Len(s)} : \A k \in 1..Len(s) : x <= s[k]

\* sorted(latencies)
Sorted(s) == SortSeq(s, LAMBDA a, b : a < b)

(***************************************************************************)
(* Statistics reducer: benchmark_run.calc_metrics                          *)
(***************************************************************************)
warmup_runs == 3

\* ticks per reported latency unit: round(x, 3) keeps 0.001 ms, a tick is 0.0002 ms
TicksPerUnit == 5

\* round(x, 3) of a duration of p / q ticks, in units of 0.001 ms
Round3(p, q) == RoundDiv(p, q * TicksPerUnit)

\* statistics.mean(latencies), rounded to 3 decimals
MeanLatency(latencies) == Round3(SumSeq(latencies), Len(latencies))

\* statistics.median(latencies), rounded to 3 decimals
MedianLatency(latencies) ==
    LET s == Sorted(latencies)
        n == Len(s)
    IN  IF n % 2 = 1 THEN Round3(s[(n + 1) \div 2], 1)
        ELSE Round3(s[n \div 2] + s[n \div 2 + 1], 2)

P95Threshold == 20

\* P95Index pointing one past the last element
P95IndexOnePast(n) == n

\* int(len(latencies) * 0.95): equal to floor(95 n / 100) for every n in 0..1000 in
\* IEEE double arithmetic
P95Index(n) == (n * 95) \div 100

\* P95Sample indexing one rank lower and without the small-sample branch
\* (Python's index -1 is the last element)
P95SampleRankBelow(latencies) ==
    LET k == P95Index(Len(latencies))
    IN  Sorted(latencies)[IF k = 0 THEN Len(latencies) ELSE k]

\* sorted(latencies)[int(len(latencies) * 0.95)] if len(latencies) >= 20 else max(latencies);
\* Python indexes from 0, sequences from 1; an index past the end raises IndexError
P95Sample(latencies) ==
    IF Len(latencies) >= P95Threshold
    THEN IF P95Index(Len(latencies)) + 1 \in 1..Len(latencies)
         THEN Sorted(latencies)[P95Index(Len(latencies)) + 1]
         ELSE -1
    ELSE MaxSeq(latencies)

\* len(latencies) / (total_time / 1000), rounded to 2 decimals, in units of 0.01 ops/sec:
\* n * 1000 / (T / (1000 * TicksPerUnit)) by long division
OpsPerSec(n, total_time) ==
    LET a == n * 1000 * 1000 * TicksPerUnit
        whole == a \div total_time
        r0 == a % total_time
        d1 == (r0 * 10) \div total_time
        r1 == (r0 * 10) % total_time
    IN  whole * 100 + d1 * 10 + RoundDiv(r1 * 10, total_time)

\* calc_metrics computing ops_per_sec from the rounded total_time_ms it reports
calc_metricsRoundedTotal(latencies, result_count) ==
    IF latencies = <<>> THEN NoMetrics
    ELSE LET total_time == Round3(SumSeq(latencies), 1) * TicksPerUnit
         IN  [avg_latency_ms |-> MeanLatency(latencies),
              median_latency_ms |-> MedianLatency(latencies),
              p95_latency_ms |-> Round3(P95Sample(latencies), 1),
              min_latency_ms |-> Round3(MinSeq(latencies), 1),
              max_latency_ms |-> Round3(MaxSeq(latencies), 1),
              total_time_ms |-> Round3(SumSeq(latencies), 1),
              ops_per_sec |-> IF total_time > 0
                              THEN OpsPerSec(Len(latencies), total_time) ELSE 0,
              runs |-> Len(latencies),
              warmup |-> warmup_runs,
              result_count |-> result_count]

calc_metrics(latencies, result_count) ==
    IF latencies = <<>> THEN NoMetrics
    ELSE LET total_time == SumSeq(latencies)
         IN  [avg_latency_ms |-> MeanLatency(latencies),
              median_latency_ms |-> MedianLatency(latencies),
              p95_latency_ms |-> Round3(P95Sample(latencies), 1),
              min_latency_ms |-> Round3(MinSeq(latencies), 1),
              max_latency_ms |-> Round3(MaxSeq(latencies), 1),
              total_time_ms |-> Round3(total_time, 1),
              ops_per_sec |-> IF total_time > 0
                              THEN OpsPerSec(Len(latencies), total_time) ELSE 0,
              runs |-> Len(latencies),
              warmup |-> warmup_runs,
              result_count |-> result_count]

(***************************************************************************)
(* SpecReduce: calc_metrics applied to bounded sample lists                *)
(***************************************************************************)
MaxSamples == 22      \* longest generated sample list
MaxShort == 2         \* every list over SampleValues up to this length

\* durations in ticks: 0 ms, 0.0014 ms, 3.1246 ms, 10 ms, 2.4691 ms
SampleValues == <<0, 7, 15623, 50000, 12345>>

\* an unsorted list of n durations with repetitions, chosen by stride a and offset b
SampleList(n, a, b) ==
    [k \in 1..n |-> SampleValues[((a * k + b) % Len(SampleValues)) + 1]]

\* [10, 20, 30, 40] ms, and 100 distinct durations in shuffled order
Fixtures ==
    { <<50000, 100000, 150000, 200000>>,
      [k \in 1..100 |-> (((k * 37) % 100) + 1) * 2503] }

SampleLists ==
    {SampleList(n, a, b) : n \in 1..MaxSamples, a \in 0..(Len(SampleValues) - 1),
                           b \in 0..(Len(SampleValues) - 1)}
    \cup UNION {[1..n -> {SampleValues[k] : k \in 1..Len(SampleValues)}] : n \in 0..MaxShort}
    \cup Fixtures

(***************************************************************************)
(* Requests: raw JSON / query-string values                                *)
(***************************************************************************)
\* a JSON value where the handler expects an integer: absent, an integer, or text
\* that int() rejects
Absent == [kind |-> "absent", val |-> 0]
Text == [kind |-> "text", val |-> 0]
IntVal(v) == [kind |-> "int", val |-> v]

\* int(data.get(key, default)): ok = FALSE when int() raises ValueError
ParseInt(raw, default) ==
    CASE raw.kind = "absent" -> [ok |-> TRUE, val |-> default]
      [] raw.kind = "int" -> [ok |-> TRUE, val |-> raw.val]
      [] OTHER -> [ok |-> FALSE, val |-> 0]

KnownTestTypes == {"title", "genre", "year_range", "actor", "combined", "deep_fetch"}
TestTypes == KnownTestTypes \cup {"bogus"}

RunsInputs == {Absent, Text, IntVal(-1), IntVal(21), IntVal(201)}
LimitInputs == {Absent, Text, IntVal(0), IntVal(1000)}
MovieIdInputs == {Absent, Text, IntVal(7)}
YearFromInputs == {Absent, Text, IntVal(2005)}
YearToInputs == {Absent, Text, IntVal(1995)}
SortInputs == {"popularity", "rating", "bogus"}

\* every test type with the year and sort fields left out, and the tests that use
\* the year and sort fields with those fields varied
BenchmarkRequests ==
    [test_type : TestTypes, runs : RunsInputs, limit : LimitInputs,
     include_explain : BOOLEAN, movie_id : {Absent},
     year_from : {Absent}, year_to : {Absent}, sort_by : {"popularity"}]
    \cup [test_type : {"deep_fetch"}, runs : RunsInputs, limit : LimitInputs,
          include_explain : BOOLEAN, movie_id : MovieIdInputs,
          year_from : {Absent}, year_to : {Absent}, sort_by : {"popularity"}]
    \cup [test_type : {"combined", "year_range"}, runs : {IntVal(-1)}, limit : {Absent},
          include_explain : {FALSE}, movie_id : {Absent},
          year_from : YearFromInputs, year_to : YearToInputs, sort_by : SortInputs]

NoRequest == [test_type |-> "", runs |-> Absent, limit |-> Absent,
              include_explain |-> FALSE, movie_id |-> Absent,
              year_from |-> Absent, year_to |-> Absent, sort_by |-> ""]

\* ClampLimit without the upper bound
ClampLimitNoMax(v) == Max(1, v)

\* runs = max(5, min(200, int(...)));  limit = max(1, min(200, int(...)))
ClampRuns(v) == Max(5, Min(200, v))
ClampLimit(v) == Max(1, Min(200, v))

(***************************************************************************)
(* Engines as seen by benchmark_run                                        *)
(***************************************************************************)
Engines == {"postgres", "mongodb"}
Phases == {"resolve", "warmup", "measure", "probe", "explain", "search"}

MaxMatches == 3       \* rows of either store that match a benchmark query

\* the year bounds and the ordering of a call that passes none
NoFilterPassed == [year_start |-> Absent, year_end |-> Absent, order |-> ""]

NoCall == [engine |-> "", phase |-> "", limit |-> 0, timed |-> FALSE,
           filter |-> NoFilterPassed, trace |-> <<>>]
NoFailure == [engine |-> "", phase |-> ""]
NoResponse == [status |-> 0, error |-> "", postgres |-> NoMetrics, mongodb |-> NoMetrics,
               has_explain |-> FALSE, movies |-> 0]

NoneExecuted == [e \in Engines |-> [p \in Phases |-> 0]]

\* len(results) of a list query with LIMIT limit; deep_fetch fetches one row
ResultCount(test_type, lim) ==
    IF test_type = "deep_fetch" THEN 1 ELSE Min(lim, MaxMatches)

\* (end - start) * 1000 of the k-th timed run of an engine, in ticks
Duration(engine, k) ==
    IF engine = "postgres"
    THEN SampleValues[((2 * k + 1) % Len(SampleValues)) + 1]
    ELSE SampleValues[((3 * k) % Len(SampleValues)) + 1]

\* OrderMode taking the sort mode as given
OrderModeAsGiven(sort_by) == sort_by

\* the ORDER BY / $sort a query strategy applies:  if sort_by == 'rating' ... else ...
OrderMode(sort_by) == IF sort_by = "rating" THEN "rating" ELSE "popularity"

\* what search_postgres / search_mongo do with the engine, in program order
StrategyTrace(engine) ==
    IF engine = "postgres" THEN <<"execute", "fetchall">>
    ELSE <<"find_one", "find", "list", "aggregate", "list">>

\* RunTrace with the document cursor consumed after the clock was stopped
RunTraceLazy(engine, test_type, phase, timed) ==
    LET body == CASE phase = "search" \/ test_type = "combined" -> StrategyTrace(engine)
                  [] test_type = "deep_fetch" ->
                        IF engine = "postgres" THEN <<"execute", "fetchone">>
                        ELSE <<"find_one">>
                  [] OTHER ->
                        IF engine = "postgres" THEN <<"execute", "fetchall">>
                        ELSE <<"find">>
    IN  IF timed
        THEN <<"perf_counter">> \o body \o <<"perf_counter">> \o
                (IF engine = "mongodb" THEN <<"list">> ELSE <<>>)
        ELSE body

\* what one warm-up or measured run of a test does, in program order: the engine
\* calls, between two readings of time.perf_counter() when the run is timed (the
\* combined test with its default actor term)
RunTrace(engine, test_type, phase, timed) ==
    LET body == CASE phase = "search" \/ test_type = "combined" -> StrategyTrace(engine)
                  [] test_type = "deep_fetch" ->
                        IF engine = "postgres" THEN <<"execute", "fetchone">>
                        ELSE <<"find_one">>
                  [] OTHER ->
                        IF engine = "postgres" THEN <<"execute", "fetchall">>
                        ELSE <<"find", "list">>
    IN  IF timed THEN <<"perf_counter">> \o body \o <<"perf_counter">> ELSE body

\* a call the handler issues, recorded with the limit and the filter it passes
CallWith(engine, phase, lim, timed, flt, test_type) ==
    /\ lastCall' = [engine |-> engine, phase |-> phase, limit |-> lim, timed |-> timed,
                    filter |-> flt,
                    trace |-> IF phase \in {"warmup", "measure", "search"}
                              THEN RunTrace(engine, test_type, phase, timed) ELSE <<>>]
    /\ executed' = [executed EXCEPT ![engine][phase] = @ + 1]

\* year_from / year_to as benchmark_run parsed them
YearFrom == ParseInt(data.year_from, 1990).val
YearTo == ParseInt(data.year_to, 2000).val

\* the year bounds and sort mode a warm-up or measured run of benchmark_run passes:
\* the combined test calls the query strategies, year_range binds the two years
BenchFilter(phase) ==
    IF phase \in {"warmup", "measure"} /\ data.test_type = "combined"
    THEN [year_start |-> IntVal(YearFrom), year_end |-> IntVal(YearTo),
          order |-> OrderMode(data.sort_by)]
    ELSE IF phase \in {"warmup", "measure", "explain"} /\ data.test_type = "year_range"
    THEN [year_start |-> IntVal(YearFrom), year_end |-> IntVal(YearTo), order |-> ""]
    ELSE NoFilterPassed

\* the call benchmark_run issues next
Call(engine, phase, lim, timed) ==
    CallWith(engine, phase, lim, timed, BenchFilter(phase), data.test_type)

Respond(status, error, pg, mongo, explain) ==
    response' = [status |-> status, error |-> error, postgres |-> pg, mongodb |-> mongo,
                 has_explain |-> explain, movies |-> 0]

(***************************************************************************)
(* benchmark_run                                                           *)
(***************************************************************************)
BenchLocalsUnchanged ==
    UNCHANGED <<pg_latencies, mongo_latencies, pg_result_count, mongo_result_count,
                pg_explain, mongo_explain>>

\* ReadOnly with a statement that deletes the ratings
ReadOnlyDropsRatings ==
    catalog' = [m \in DOMAIN catalog |-> [catalog[m] EXCEPT !.ratings = <<>>]]

\* every statement the handlers issue is a SELECT, an EXPLAIN of a SELECT, a find,
\* a find_one or an aggregate without $out / $merge: the stores keep their content
ReadOnly == catalog' = catalog

OtherSpecsUnchanged ==
    /\ UNCHANGED <<reduceVars, compareVars, filter, pg_rows, mongo_rows, mongo_aggregated,
                   sessionVars, routeVars, singletonVars>>
    /\ ReadOnly

\* a statement sent on a connection whose transaction is aborted raises
\* (InFailedSqlTransaction): a relational call succeeds only while this holds
PgUsable == conn_state = "ok"

\* ConnAfterError with the handler rolling the connection back
ConnAfterErrorRolledBack(engine) == "ok"

\* the shared connection after a call to the engine raised: autocommit is off and
\* the handlers neither commit nor roll back
ConnAfterError(engine) == IF engine = "postgres" THEN "aborted" ELSE conn_state

\* request.get_json() gave nothing: 400 before anything else is done
BenchmarkNoData ==
    /\ pc = "idle"
    /\ pc' = "done"
    /\ Respond(400, "No JSON data provided", NoMetrics, NoMetrics, FALSE)
    /\ UNCHANGED <<data, args, runs, limit, i, movie_id, pg_cursor, executed, lastCall,
                   failure, conn_state>>
    /\ BenchLocalsUnchanged
    /\ OtherSpecsUnchanged

\* where the handler goes after pg_cursor = conn.cursor(), by test_type
FirstStep(d) ==
    CASE d.test_type = "deep_fetch" /\ d.movie_id.kind = "absent" -> "resolve_pg"
      [] d.test_type = "deep_fetch" /\ d.movie_id.kind = "text" -> "done"
      [] d.test_type \in KnownTestTypes -> "pg_warmup"
      [] OTHER -> "done"

\* lines 4416-4450 and the dispatch on test_type up to the first engine call
BenchmarkReceive(d) ==
    LET yf == ParseInt(d.year_from, 1990)
        yt == ParseInt(d.year_to, 2000)
        r == ParseInt(d.runs, 50)
        l == ParseInt(d.limit, 50)
    IN  /\ pc = "idle"
        /\ data' = d
        /\ i' = 0
        /\ UNCHANGED <<args, executed, lastCall, failure, conn_state>>
        /\ BenchLocalsUnchanged
        /\ OtherSpecsUnchanged
        /\ IF ~yf.ok \/ ~yt.ok \/ ~r.ok \/ ~l.ok
           THEN \* int() raised before the cursor was taken: except branch
                /\ pc' = "done"
                /\ Respond(500, "ValueError", NoMetrics, NoMetrics, FALSE)
                /\ UNCHANGED <<runs, limit, movie_id, pg_cursor>>
           ELSE /\ runs' = ClampRuns(r.val)
                /\ limit' = ClampLimit(l.val)
                /\ movie_id' = d.movie_id
                /\ pc' = FirstStep(d)
                /\ CASE d.test_type \notin KnownTestTypes ->
                           \* pg_cursor.close(); return 400
                           /\ pg_cursor' = "closed"
                           /\ Respond(400, "Unknown test_type", NoMetrics, NoMetrics, FALSE)
                     [] d.test_type = "deep_fetch" /\ d.movie_id.kind = "text" ->
                           \* movie_id = int(movie_id) raised: except branch
                           /\ pg_cursor' = "open"
                           /\ Respond(500, "ValueError", NoMetrics, NoMetrics, FALSE)
                     [] OTHER ->
                           /\ pg_cursor' = "open"
                           /\ UNCHANGED response

StepFrame == /\ UNCHANGED <<data, args, runs, limit, pg_cursor, failure, conn_state>>
             /\ OtherSpecsUnchanged

\* deep_fetch without movie_id: SELECT movie_id FROM movies ORDER BY movie_id LIMIT 1
DeepFetchResolvePg ==
    /\ pc = "resolve_pg"
    /\ PgUsable
    /\ Call("postgres", "resolve", 1, FALSE)
    /\ \E found \in BOOLEAN :
          IF found
          THEN /\ movie_id' = IntVal(1)
               /\ pc' = "resolve_mongo"
               /\ UNCHANGED response
          ELSE /\ pc' = "done"
               /\ Respond(400, "No movies found in PostgreSQL", NoMetrics, NoMetrics, FALSE)
               /\ UNCHANGED movie_id
    /\ UNCHANGED i
    /\ BenchLocalsUnchanged
    /\ StepFrame

\* mongo_movies_col.find({}, {"id": 1}).sort("id", 1).limit(1)
DeepFetchResolveMongo ==
    /\ pc = "resolve_mongo"
    /\ Call("mongodb", "resolve", 1, FALSE)
    /\ \E found \in BOOLEAN :
          IF found
          THEN /\ pc' = "pg_warmup"
               /\ UNCHANGED response
          ELSE /\ pc' = "done"
               /\ Respond(400, "No movies found in MongoDB", NoMetrics, NoMetrics, FALSE)
    /\ UNCHANGED <<i, movie_id>>
    /\ BenchLocalsUnchanged
    /\ StepFrame

\* the limit a benchmark query passes to the engine; deep_fetch selects by id
QueryLimit == IF data.test_type = "deep_fetch" THEN 1 ELSE limit

\* PgWarmup with the warm-up run timed like a measured run
PgWarmupTimed ==
    /\ pc = "pg_warmup"
    /\ PgUsable
    /\ Call("postgres", "warmup", QueryLimit, TRUE)
    /\ pg_latencies' = Append(pg_latencies, Duration("postgres", i))
    /\ IF i + 1 < warmup_runs
       THEN /\ i' = i + 1 /\ pc' = "pg_warmup"
       ELSE /\ i' = 0 /\ pc' = "pg_measure"
    /\ UNCHANGED <<movie_id, response, mongo_latencies, pg_result_count,
                   mongo_result_count, pg_explain, mongo_explain>>
    /\ StepFrame

\* PgWarmup handing over to the document engine's warm-up before the timed runs
PgWarmupThenMongo ==
    /\ pc = "pg_warmup"
    /\ PgUsable
    /\ Call("postgres", "warmup", QueryLimit, FALSE)
    /\ IF i + 1 < warmup_runs
       THEN /\ i' = i + 1 /\ pc' = "pg_warmup"
       ELSE /\ i' = 0 /\ pc' = "mongo_warmup"
    /\ UNCHANGED <<movie_id, response>>
    /\ BenchLocalsUnchanged
    /\ StepFrame

\* one iteration of "for _ in range(warmup_runs)" on the relational engine
PgWarmup ==
    /\ pc = "pg_warmup"
    /\ PgUsable
    /\ Call("postgres", "warmup", QueryLimit, FALSE)
    /\ IF i + 1 < warmup_runs
       THEN /\ i' = i + 1 /\ pc' = "pg_warmup"
       ELSE /\ i' = 0 /\ pc' = "pg_measure"
    /\ UNCHANGED <<movie_id, response>>
    /\ BenchLocalsUnchanged
    /\ StepFrame

\* PgMeasure running the explains right after the relational loop
PgMeasureThenExplain ==
    /\ pc = "pg_measure"
    /\ PgUsable
    /\ Call("postgres", "measure", QueryLimit, TRUE)
    /\ pg_latencies' = Append(pg_latencies, Duration("postgres", i))
    /\ pg_result_count' = ResultCount(data.test_type, limit)
    /\ IF i + 1 < runs
       THEN /\ i' = i + 1 /\ pc' = "pg_measure"
       ELSE /\ i' = 0
            /\ pc' = IF data.include_explain THEN "pg_explain"
                     ELSE IF data.test_type = "actor" THEN "mongo_probe" ELSE "mongo_warmup"
    /\ UNCHANGED <<movie_id, response, mongo_latencies, mongo_result_count,
                   pg_explain, mongo_explain>>
    /\ StepFrame

\* one iteration of "for _ in range(runs)" on the relational engine
PgMeasure ==
    /\ pc = "pg_measure"
    /\ PgUsable
    /\ Call("postgres", "measure", QueryLimit, TRUE)
    /\ pg_latencies' = Append(pg_latencies, Duration("postgres", i))
    /\ pg_result_count' = ResultCount(data.test_type, limit)
    /\ IF i + 1 < runs
       THEN /\ i' = i + 1 /\ pc' = "pg_measure"
       ELSE /\ i' = 0
            /\ pc' = IF data.test_type = "actor" THEN "mongo_probe" ELSE "mongo_warmup"
    /\ UNCHANGED <<movie_id, response, mongo_latencies, mongo_result_count,
                   pg_explain, mongo_explain>>
    /\ StepFrame

\* actor test: sample_credit = mongo_credits_col.find_one({"cast": {"$exists": True}})
MongoProbe ==
    /\ pc = "mongo_probe"
    /\ Call("mongodb", "probe", 1, FALSE)
    /\ pc' = "mongo_warmup"
    /\ UNCHANGED <<i, movie_id, response>>
    /\ BenchLocalsUnchanged
    /\ StepFrame

\* one iteration of "for _ in range(warmup_runs)" on the document engine
MongoWarmup ==
    /\ pc = "mongo_warmup"
    /\ Call("mongodb", "warmup", QueryLimit, FALSE)
    /\ IF i + 1 < warmup_runs
       THEN /\ i' = i + 1 /\ pc' = "mongo_warmup"
       ELSE /\ i' = 0 /\ pc' = "mongo_measure"
    /\ UNCHANGED <<movie_id, response>>
    /\ BenchLocalsUnchanged
    /\ StepFrame

\* one iteration of "for _ in range(runs)" on the document engine
MongoMeasure ==
    /\ pc = "mongo_measure"
    /\ Call("mongodb", "measure", QueryLimit, TRUE)
    /\ mongo_latencies' = Append(mongo_latencies, Duration("mongodb", i))
    /\ mongo_result_count' = ResultCount(data.test_type, limit)
    /\ IF i + 1 < runs
       THEN /\ i' = i + 1 /\ pc' = "mongo_measure"
       ELSE /\ i' = 0
            /\ pc' = IF data.include_explain THEN "pg_explain" ELSE "finish"
    /\ UNCHANGED <<movie_id, response, pg_latencies, pg_result_count,
                   pg_explain, mongo_explain>>
    /\ StepFrame

\* "if include_explain:" the combined test sets two fixed texts, every other test
\* runs EXPLAIN on the relational engine first
PgExplain ==
    /\ pc = "pg_explain"
    /\ IF data.test_type = "combined"
       THEN /\ pg_explain' = "text"
            /\ mongo_explain' = "text"
            /\ pc' = "finish"
            /\ UNCHANGED <<executed, lastCall>>
       ELSE /\ PgUsable
            /\ Call("postgres", "explain", QueryLimit, FALSE)
            /\ pg_explain' = "plan"
            /\ pc' = "mongo_explain"
            /\ UNCHANGED mongo_explain
    /\ UNCHANGED <<i, movie_id, response, pg_latencies, mongo_latencies,
                   pg_result_count, mongo_result_count>>
    /\ StepFrame

\* mongo ... .explain() and _format_mongo_explain; the title test then runs a
\* second pair of explains (lines 4496-4499), i counting the pairs done
MongoExplain ==
    /\ pc = "mongo_explain"
    /\ Call("mongodb", "explain", QueryLimit, FALSE)
    /\ mongo_explain' = "plan"
    /\ IF data.test_type = "title" /\ i = 0
       THEN /\ i' = 1 /\ pc' = "pg_explain"
       ELSE /\ i' = i /\ pc' = "finish"
    /\ UNCHANGED <<movie_id, response, pg_latencies, mongo_latencies,
                   pg_result_count, mongo_result_count, pg_explain>>
    /\ StepFrame

\* pg_cursor.close(), calc_metrics for both engines, jsonify(response)
BenchmarkFinish ==
    /\ pc = "finish"
    /\ pg_cursor' = "closed"
    /\ Respond(200, "", calc_metrics(pg_latencies, pg_result_count),
               calc_metrics(mongo_latencies, mongo_result_count), data.include_explain)
    /\ pc' = "done"
    /\ UNCHANGED <<data, args, runs, limit, i, movie_id, executed, lastCall, failure,
                   conn_state>>
    /\ BenchLocalsUnchanged
    /\ OtherSpecsUnchanged

\* the engine call the handler is about to issue at pc
PendingCall ==
    CASE pc = "resolve_pg" -> [engine |-> "postgres", phase |-> "resolve"]
      [] pc = "resolve_mongo" -> [engine |-> "mongodb", phase |-> "resolve"]
      [] pc = "pg_warmup" -> [engine |-> "postgres", phase |-> "warmup"]
      [] pc = "pg_measure" -> [engine |-> "postgres", phase |-> "measure"]
      [] pc = "mongo_probe" -> [engine |-> "mongodb", phase |-> "probe"]
      [] pc = "mongo_warmup" -> [engine |-> "mongodb", phase |-> "warmup"]
      [] pc = "mongo_measure" -> [engine |-> "mongodb", phase |-> "measure"]
      [] pc = "pg_explain" /\ data.test_type # "combined" ->
             [engine |-> "postgres", phase |-> "explain"]
      [] pc = "mongo_explain" -> [engine |-> "mongodb", phase |-> "explain"]
      [] OTHER -> NoFailure

\* what "except Exception as e" returns when an engine call raised
ErrorResponse ==
    [status |-> 500, error |-> "engine error", postgres |-> NoMetrics,
     mongodb |-> NoMetrics, has_explain |-> FALSE, movies |-> 0]

\* an engine call raises: control goes to "except Exception as e" (lines 4856-4858)
EngineError ==
    /\ PendingCall # NoFailure
    /\ Call(PendingCall.engine, PendingCall.phase, QueryLimit, FALSE)
    /\ failure' = PendingCall
    /\ conn_state' = ConnAfterError(PendingCall.engine)
    /\ response' = ErrorResponse
    /\ pc' = "done"
    /\ UNCHANGED <<data, args, runs, limit, i, movie_id, pg_cursor>>
    /\ BenchLocalsUnchanged
    /\ OtherSpecsUnchanged

(***************************************************************************)
(* combined_search and user_advanced_search (interactive search handlers)  *)
(***************************************************************************)
SearchHandlers == {"combined_search", "user_advanced_search"}

\* values session.get('db_type', DEFAULT_DB_TYPE) can give: switch_database stores
\* 'postgres' or 'mongodb', DEFAULT_DB_TYPE is any lower-cased DB_TYPE
DbTypes == {"postgres", "postgresql", "mongodb", "mongo", "sqlite"}

YearStartInputs == {Absent, Text, IntVal(1995)}
YearEndInputs == {Absent, Text, IntVal(1990)}

\* request.args: a submitted form, or no query parameter at all
SearchRequests ==
    [handler : SearchHandlers, submitted : {TRUE}, year_start : YearStartInputs,
     year_end : YearEndInputs, sort_by : SortInputs, limit : LimitInputs,
     db_type : DbTypes]
    \cup [handler : SearchHandlers, submitted : {FALSE}, year_start : {Absent},
          year_end : {Absent}, sort_by : {"popularity"}, limit : {Absent},
          db_type : DbTypes]

NoArgs == [handler |-> "", submitted |-> FALSE, year_start |-> Absent,
           year_end |-> Absent, sort_by |-> "", limit |-> Absent, db_type |-> ""]

\* the limit both handlers pass to the query strategy, whatever the caller sends
SearchLimit == 100

\* SearchEngine dispatching on the session for both handlers
SearchEngineBySession(q) == IF q.db_type = "mongodb" THEN "mongodb" ELSE "postgres"

\* the strategy a handler dispatches to
SearchEngine(q) ==
    IF q.handler = "combined_search" /\ q.db_type = "mongodb" THEN "mongodb" ELSE "postgres"

\* "if sort_by not in ['popularity', 'rating']: sort_by = 'popularity'"
ValidSort(sort_by) ==
    IF sort_by \in {"popularity", "rating"} THEN sort_by ELSE "popularity"

\* RenderedMovies keeping the rows fetched before the strategy raised
RenderedMoviesPartial(raises, n) == n

\* len(movies) as rendered: movies = [] until the strategy has returned its list
RenderedMovies(raises, n) == IF raises THEN 0 ELSE n

\* one request to combined_search / user_advanced_search, run to its response
InteractiveSearch(q) ==
    /\ pc = "idle"
    /\ pc' = "done"
    /\ args' = q
    /\ IF ~q.submitted
       THEN \* nothing searched: the empty form is rendered
            /\ response' = [NoResponse EXCEPT !.status = 200]
            /\ UNCHANGED <<executed, lastCall, failure, conn_state>>
       ELSE IF q.year_start.kind = "text" \/ q.year_end.kind = "text"
       THEN \* int(year_start) / int(year_end) raises outside the try block
            /\ response' = [NoResponse EXCEPT !.status = 500, !.error = "ValueError"]
            /\ UNCHANGED <<executed, lastCall, failure, conn_state>>
       ELSE \E raises \in BOOLEAN :
            /\ (SearchEngine(q) = "postgres" /\ ~PgUsable) => raises
            /\ conn_state' = IF raises THEN ConnAfterError(SearchEngine(q)) ELSE conn_state
            /\ CallWith(SearchEngine(q), "search", SearchLimit, FALSE,
                        [year_start |-> q.year_start, year_end |-> q.year_end,
                         order |-> OrderMode(ValidSort(q.sort_by))], "")
            /\ failure' = IF raises THEN [engine |-> SearchEngine(q), phase |-> "search"]
                          ELSE NoFailure
            /\ response' = [NoResponse EXCEPT
                               !.status = 200,
                               !.error = IF raises THEN "Search error" ELSE "",
                               !.movies = RenderedMovies(raises,
                                                         Min(SearchLimit, MaxMatches))]
    /\ UNCHANGED <<data, runs, limit, i, movie_id, pg_cursor>>
    /\ BenchLocalsUnchanged
    /\ OtherSpecsUnchanged

(***************************************************************************)
(* The catalog and its two stores                                          *)
(* Text is a sequence of one-character strings; a date string is a         *)
(* sequence of character codes ("-" is 45, "0".."9" are 48..57).           *)
(***************************************************************************)
MaxMovies == 2        \* movies in the catalog

NoDate == [year |-> 0, month |-> 0, day |-> 0]
NoPopularity == -1    \* NULL / absent popularity

DRAMA == <<"D", "r">>
COMEDY == <<"C", "o">>
CRIME == <<"C", "r">>
ANN == <<"A", "n">>
BOB == <<"B", "o">>
BEN == <<"B", "n">>

\* the movies a catalog is made of: title, original title, release date, popularity,
\* genres, cast and ratings as the source CSV files give them
Profiles ==
    { [title |-> <<"A", "b">>, original_title |-> <<"A", "b">>,
       date |-> [year |-> 1995, month |-> 6, day |-> 15], popularity |-> 2,
       genres |-> {DRAMA, CRIME}, cast |-> {ANN, BEN}, ratings |-> <<4, 8>>],
      [title |-> <<"a", "x", "b">>, original_title |-> <<"a", "x", "b">>,
       date |-> [year |-> 2005, month |-> 12, day |-> 31], popularity |-> 1,
       genres |-> {DRAMA}, cast |-> {ANN}, ratings |-> <<7>>],
      [title |-> <<"b", "b">>, original_title |-> <<"x", "y">>,
       date |-> [year |-> 1995, month |-> 1, day |-> 1], popularity |-> NoPopularity,
       genres |-> {}, cast |-> {}, ratings |-> <<>>],
      [title |-> <<"x">>, original_title |-> <<"x">>,
       date |-> NoDate, popularity |-> 2,
       genres |-> {COMEDY}, cast |-> {BOB}, ratings |-> <<8, 4, 6>>] }

Catalogs == UNION {[1..n -> Profiles] : n \in 1..MaxMovies}

(***************************************************************************)
(* Spec: the request handlers, one request after the other                 *)
(***************************************************************************)
BenchInit ==
    /\ pc = "idle"
    /\ data = NoRequest
    /\ args = NoArgs
    /\ runs = 0
    /\ limit = 0
    /\ i = 0
    /\ movie_id = Absent
    /\ pg_cursor = "none"
    /\ pg_latencies = <<>>
    /\ mongo_latencies = <<>>
    /\ pg_result_count = 0
    /\ mongo_result_count = 0
    /\ pg_explain = None
    /\ mongo_explain = None
    /\ executed = NoneExecuted
    /\ lastCall = NoCall
    /\ failure = NoFailure
    /\ response = NoResponse

ReduceIdle == samples = <<>> /\ metrics = Pending
CompareIdle == times = [sql |-> 0, nosql |-> 0] /\ comparison = Pending
SearchIdle ==
    /\ catalog = <<>> /\ filter = Pending
    /\ pg_rows = Pending /\ mongo_rows = Pending /\ mongo_aggregated = FALSE

\* the seeded catalog the handlers of Spec query: every movie has the ratings 4 and 8
SeededCatalog == [k \in 1..MaxMovies |-> CHOOSE p \in Profiles : p.ratings = <<4, 8>>]

SearchSeeded ==
    /\ catalog = SeededCatalog /\ filter = Pending
    /\ pg_rows = Pending /\ mongo_rows = Pending /\ mongo_aggregated = FALSE

Threads == {"t1", "t2", "t3"}
SessionUnset == "<unset>"
NoForm == "<none>"

ConnIdle == conn_state = "ok"
SessionIdle == session = SessionUnset /\ DEFAULT_DB_TYPE = "postgres" /\ form = NoForm
RouteIdle == route_data = Pending /\ route_response = Pending
SingletonIdle ==
    /\ mongo_connection = 0
    /\ thread_pc = [t \in Threads |-> "idle"]
    /\ thread_got = [t \in Threads |-> 0]
    /\ instances = 0
    /\ live = {}

Init ==
    /\ BenchInit /\ ReduceIdle /\ CompareIdle /\ SearchSeeded
    /\ ConnIdle /\ SessionIdle /\ RouteIdle /\ SingletonIdle

\* the response has been sent; the next request starts with fresh locals
NextRequest ==
    /\ pc = "done"
    /\ pc' = "idle"
    /\ data' = NoRequest
    /\ args' = NoArgs
    /\ runs' = 0
    /\ limit' = 0
    /\ i' = 0
    /\ movie_id' = Absent
    /\ pg_cursor' = "none"
    /\ pg_latencies' = <<>>
    /\ mongo_latencies' = <<>>
    /\ pg_result_count' = 0
    /\ mongo_result_count' = 0
    /\ pg_explain' = None
    /\ mongo_explain' = None
    /\ executed' = NoneExecuted
    /\ lastCall' = NoCall
    /\ failure' = NoFailure
    /\ response' = NoResponse
    /\ UNCHANGED conn_state
    /\ OtherSpecsUnchanged

\* between two requests, a handler that rolls the shared connection back in its
\* except branch serves a failing request
OtherHandlerRollback ==
    /\ pc = "idle"
    /\ conn_state = "aborted"
    /\ conn_state' = "ok"
    /\ UNCHANGED benchVars
    /\ OtherSpecsUnchanged

Next ==
    \/ BenchmarkNoData
    \/ \E d \in BenchmarkRequests : BenchmarkReceive(d)
    \/ DeepFetchResolvePg
    \/ DeepFetchResolveMongo
    \/ PgWarmup
    \/ PgMeasure
    \/ MongoProbe
    \/ MongoWarmup
    \/ MongoMeasure
    \/ PgExplain
    \/ MongoExplain
    \/ BenchmarkFinish
    \/ EngineError
    \/ \E q \in SearchRequests : InteractiveSearch(q)
    \/ NextRequest
    \/ OtherHandlerRollback

Spec == Init /\ [][Next]_vars

(***************************************************************************)
(* Claims on Spec                                                          *)
(***************************************************************************)
BenchmarkSucceeded ==
    pc = "done" /\ data.test_type \in KnownTestTypes /\ response.status = 200

\* R: the requested number of runs, clamped
RequestedRuns == Max(5, Min(200, ParseInt(data.runs, 50).val))

\* C1: a benchmark_run request that completes successfully reports, for every test
\* type and each engine, statistics over exactly R timed samples (runs = R), R the
\* clamped number of runs; the 3 warm-up executions of an engine took place and
\* none of them contributed a sample.
C1_ExactlyRTimedSamples ==
    BenchmarkSucceeded =>
        /\ response.postgres # NoMetrics /\ response.mongodb # NoMetrics
        /\ response.postgres.runs = RequestedRuns
        /\ response.mongodb.runs = RequestedRuns
        /\ Len(pg_latencies) = RequestedRuns
        /\ Len(mongo_latencies) = RequestedRuns
        /\ \A e \in Engines : /\ executed[e]["warmup"] = 3
                              /\ executed[e]["measure"] = RequestedRuns

C1_Witness ==
    /\ BenchmarkSucceeded
    /\ data.test_type = "deep_fetch"
    /\ data.runs = IntVal(21)
    /\ response.postgres.runs = 21
    /\ response.mongodb.runs = 21
    /\ executed["postgres"]["warmup"] = 3

\* C2: when one engine raises during its warm-up or measurement loop, the response
\* still carries valid statistics for the other engine and reports the error in
\* place of the failing engine's statistics.
C2_OtherEngineStillReported ==
    (pc = "done" /\ failure.phase \in {"warmup", "measure"}) =>
        /\ response.error # ""
        /\ failure.engine = "mongodb" => response.postgres # NoMetrics
        /\ failure.engine = "postgres" => response.mongodb # NoMetrics

\* C3: the relational cursor benchmark_run acquired is closed on every exit path of
\* the request.
C3_CursorClosedOnEveryExit ==
    pc = "done" => pg_cursor # "open"

\* the engine call a step issues, if it issues one
Issues(engine, phase) ==
    executed'[engine][phase] = executed[engine][phase] + 1

MongoRuns == executed["mongodb"]["warmup"] + executed["mongodb"]["measure"]

\* C4: within one benchmark_run request each engine goes WARMUP, MEASURE, DONE in
\* that order and the engines run one after the other: a relational warm-up run is
\* issued before any timed run, a relational timed run only after the 3 relational
\* warm-ups and before any document run, a document warm-up run only after all R
\* relational timed runs, a document timed run only after the 3 document warm-ups.
C4_StepOrder ==
    /\ Issues("postgres", "warmup") =>
          /\ executed["postgres"]["warmup"] < 3
          /\ executed["postgres"]["measure"] = 0 /\ MongoRuns = 0
    /\ Issues("postgres", "measure") =>
          /\ executed["postgres"]["warmup"] = 3
          /\ executed["postgres"]["measure"] < runs /\ MongoRuns = 0
    /\ Issues("mongodb", "warmup") =>
          /\ executed["postgres"]["warmup"] = 3
          /\ executed["postgres"]["measure"] = runs
          /\ executed["mongodb"]["warmup"] < 3
          /\ executed["mongodb"]["measure"] = 0
    /\ Issues("mongodb", "measure") =>
          /\ executed["postgres"]["warmup"] = 3
          /\ executed["postgres"]["measure"] = runs
          /\ executed["mongodb"]["warmup"] = 3
          /\ executed["mongodb"]["measure"] < runs

C4_EnginesRunInSequence == [][C4_StepOrder]_vars

C4_Witness ==
    /\ pc = "mongo_measure"
    /\ data.test_type = "combined"
    /\ executed["postgres"]["measure"] = runs
    /\ executed["mongodb"]["warmup"] = 3
    /\ executed["mongodb"]["measure"] = 2

\* C5: whatever integers are supplied as runs and limit, a benchmark request
\* executes between 5 and 200 timed iterations per engine and passes a limit within
\* 1..200 to every query; the interactive search handlers pass a limit that does
\* not exceed the maximum of 200 whatever the caller sends.
C5_RunsAndLimitClamped ==
    /\ lastCall # NoCall => lastCall.limit \in 1..200
    /\ Len(pg_latencies) <= 200 /\ Len(mongo_latencies) <= 200
    /\ pg_cursor = "open" => runs \in 5..200 /\ limit \in 1..200
    /\ BenchmarkSucceeded =>
          /\ Len(pg_latencies) \in 5..200 /\ Len(mongo_latencies) \in 5..200
          /\ lastCall.limit = IF data.test_type = "deep_fetch" THEN 1
                              ELSE Max(1, Min(200, ParseInt(data.limit, 50).val))

C5_Witness ==
    /\ BenchmarkSucceeded
    /\ data.runs = IntVal(201) /\ data.limit = IntVal(1000)
    /\ Len(pg_latencies) = 200 /\ Len(mongo_latencies) = 200
    /\ lastCall.limit = 200

(***************************************************************************)
(* SpecReduce: calc_metrics applied to one sample list                     *)
(***************************************************************************)
ReduceInit ==
    /\ BenchInit /\ CompareIdle /\ SearchIdle
    /\ ConnIdle /\ SessionIdle /\ RouteIdle /\ SingletonIdle
    /\ samples \in SampleLists
    /\ metrics = Pending

\* response["postgres"] = calc_metrics(pg_latencies, pg_result_count)
Reduce ==
    /\ metrics = Pending
    /\ metrics' = calc_metrics(samples, Min(Len(samples), MaxMatches))
    /\ UNCHANGED <<samples, benchVars, compareVars, searchVars, conn_state, sessionVars,
                   routeVars, singletonVars>>

ReduceNext == Reduce

SpecReduce == ReduceInit /\ [][ReduceNext]_vars

Reduced == metrics # Pending /\ metrics # NoMetrics

\* the largest sample of the list
LargestSample == CHOOSE x \in {samples[k] : k \in DOMAIN samples} :
                     \A k \in DOMAIN samples : samples[k] <= x

\* C6: for every non-empty sample list with fewer than 20 samples calc_metrics
\* reports p95 equal to the maximum sample (to the three decimals it reports, the
\* same value as max_latency_ms); [10, 20, 30, 40] ms gives p95 = 40 ms.
C6_SmallSampleP95IsMax ==
    (Reduced /\ Len(samples) < 20) =>
        /\ metrics.p95_latency_ms = RoundDiv(LargestSample, TicksPerUnit)
        /\ metrics.p95_latency_ms = metrics.max_latency_ms
        /\ samples = <<50000, 100000, 150000, 200000>> => metrics.p95_latency_ms = 40000

C6_Witness ==
    /\ Reduced
    /\ samples = <<50000, 100000, 150000, 200000>>
    /\ metrics.p95_latency_ms = 40000

\* the sample at 1-based rank r of the sorted list: at most r - 1 samples are
\* smaller and at least r samples are not larger
AtRank(r) == CHOOSE x \in {samples[k] : k \in DOMAIN samples} :
                 /\ Cardinality({k \in DOMAIN samples : samples[k] < x}) <= r - 1
                 /\ Cardinality({k \in DOMAIN samples : samples[k] <= x}) >= r

\* ceil(0.95 n)
NearestRank95(n) == (95 * n + 99) \div 100

\* C7: for every sample list of length n >= 20 calc_metrics reports p95 equal to
\* the nearest-rank 95th percentile, the sample at 1-based rank ceil(0.95 n) of the
\* sorted list (the 95th smallest of 100).
C7_P95IsNearestRank ==
    (Reduced /\ Len(samples) >= 20) =>
        metrics.p95_latency_ms = RoundDiv(AtRank(NearestRank95(Len(samples))), TicksPerUnit)

\* the samples' total in ticks
TotalTicks == SumSeq(samples)

\* ops per second are n * 1000 * 1000 * TicksPerUnit / TotalTicks; h hundredths
\* differ from that by at most half a hundredth
WithinHalfHundredth(h, n, total) ==
    LET a == n * 1000 * 1000 * TicksPerUnit
        w == h \div 100
        f == h % 100
        r == a - w * total
    IN  /\ r \in (0 - total)..total
        /\ 2 * (f * total - 100 * r) <= total
        /\ 2 * (100 * r - f * total) <= total

\* C8: calc_metrics reports opsPerSec = iterations / (totalMs / 1000), rounded to
\* two decimals, and never divides by zero: with a total measured time of 0 it
\* returns 0.
C8_OpsPerSecGuarded ==
    Reduced =>
        /\ TotalTicks = 0 => metrics.ops_per_sec = 0
        /\ TotalTicks > 0 =>
              WithinHalfHundredth(metrics.ops_per_sec, Len(samples), TotalTicks)

C8_Witness ==
    /\ Reduced
    /\ Len(samples) = 5
    /\ TotalTicks = 0
    /\ metrics.ops_per_sec = 0
    /\ metrics.runs = 5

(***************************************************************************)
(* SpecCompare: the comparison summary of compare_top_movies               *)
(* times are in units of 0.001 ms; speedup_factor and difference_ms are    *)
(* reported with two decimals, in units of 0.01                            *)
(***************************************************************************)
\* sql_time and nosql_time, (time.time() - start_time) * 1000
CompareTimes == {0, 1, 7, 10000, 12345, 29999, 30000, 500000}

CompareInit ==
    /\ BenchInit /\ ReduceIdle /\ SearchIdle
    /\ ConnIdle /\ SessionIdle /\ RouteIdle /\ SingletonIdle
    /\ times \in [sql : CompareTimes, nosql : CompareTimes]
    /\ comparison = Pending

\* lines 100-109; a ZeroDivisionError goes to "except Exception" (lines 113-115)
ComparisonSummary(sql_time, nosql_time) ==
    IF Min(sql_time, nosql_time) = 0
    THEN [status |-> 500, faster |-> "", speedup_factor |-> 0, difference_ms |-> 0]
    ELSE [status |-> 200,
          faster |-> IF sql_time < nosql_time THEN "sql" ELSE "nosql",
          speedup_factor |-> RoundDiv(100 * Max(sql_time, nosql_time),
                                      Min(sql_time, nosql_time)),
          difference_ms |-> RoundDiv(Max(sql_time, nosql_time) - Min(sql_time, nosql_time),
                                     10)]

Compare ==
    /\ comparison = Pending
    /\ comparison' = ComparisonSummary(times.sql, times.nosql)
    /\ UNCHANGED <<times, benchVars, reduceVars, searchVars, conn_state, sessionVars,
                   routeVars, singletonVars>>

\* JSON bodies of POST /api/compare/benchmark
RouteQueryTypes == {"top_movies", "trending", "bogus"}
IterationsInputs == {Absent, Text, IntVal(-1), IntVal(0), IntVal(1), IntVal(3), IntVal(150)}
RouteRequests == [query_type : RouteQueryTypes, iterations : IterationsInputs]

\* the first measured time of each engine, in 0.001 ms; later iterations vary around it
RouteBaseTimes == {<<1000, 2004>>, <<12345, 7>>}

\* the loop body appends one time per engine for 'top_movies' only
RouteSamples(query_type, n, base) ==
    IF query_type = "top_movies" /\ n >= 1
    THEN [k \in 1..n |-> base + ((37 * k) % 11)]
    ELSE <<>>

\* sorted_data[min(int(len * percentile / 100), len - 1)]
calculate_percentile(route_times, percentile) ==
    LET sorted_data == Sorted(route_times)
        index == (Len(sorted_data) * percentile) \div 100
    IN  sorted_data[Min(index, Len(sorted_data) - 1) + 1]

NoStats == [min |-> 0, max |-> 0, avg |-> 0, p50 |-> 0, p95 |-> 0, p99 |-> 0]

\* sql_stats / nosql_stats, two decimals (units of 0.01 ms); the list is not empty
RouteStats(route_times) ==
    [min |-> RoundDiv(MinSeq(route_times), 10),
     max |-> RoundDiv(MaxSeq(route_times), 10),
     avg |-> RoundDiv(SumSeq(route_times), 10 * Len(route_times)),
     p50 |-> RoundDiv(calculate_percentile(route_times, 50), 10),
     p95 |-> RoundDiv(calculate_percentile(route_times, 95), 10),
     p99 |-> RoundDiv(calculate_percentile(route_times, 99), 10)]

RouteError(code) ==
    [status |-> code, iterations |-> 0, samples |-> [sql |-> 0, nosql |-> 0],
     sql |-> NoStats, nosql |-> NoStats]

\* the response of benchmark(): int() raising, min([]) raising and every other
\* exception go to "except Exception" (lines 381-383)
RouteResponse(request, base) ==
    LET parsed == ParseInt(request.iterations, 10)
        iterations == Min(parsed.val, 100)
        sql_times == RouteSamples(request.query_type, iterations, base[1])
        nosql_times == RouteSamples(request.query_type, iterations, base[2])
    IN  IF ~parsed.ok THEN RouteError(500)
        ELSE IF request.query_type \notin {"top_movies", "trending"} THEN RouteError(400)
        ELSE IF sql_times = <<>> \/ nosql_times = <<>> THEN RouteError(500)
        ELSE [status |-> 200, iterations |-> iterations,
              samples |-> [sql |-> Len(sql_times), nosql |-> Len(nosql_times)],
              sql |-> RouteStats(sql_times), nosql |-> RouteStats(nosql_times)]

\* one POST /api/compare/benchmark, run to its response
RouteBenchmark ==
    /\ route_response = Pending
    /\ \E request \in RouteRequests, base \in RouteBaseTimes :
          /\ route_data' = request
          /\ route_response' = RouteResponse(request, base)
    /\ UNCHANGED <<compareVars, benchVars, reduceVars, searchVars, conn_state,
                   sessionVars, singletonVars>>

CompareNext == Compare \/ RouteBenchmark

SpecCompare == CompareInit /\ [][CompareNext]_vars

\* C9: the comparison reports as faster the engine with the lower latency and
\* speedupFactor = max / min, and is guarded against division by zero: when both
\* latencies are equal or either is zero it completes with speedupFactor = 1.0
\* (10 ms and 30 ms give the first engine as faster with factor 3.0).
C9_ComparisonGuarded ==
    comparison # Pending =>
        /\ comparison.status = 200
        /\ times.sql < times.nosql => comparison.faster = "sql"
        /\ times.nosql < times.sql => comparison.faster = "nosql"
        /\ IF times.sql = times.nosql \/ times.sql = 0 \/ times.nosql = 0
           THEN comparison.speedup_factor = 100
           ELSE comparison.speedup_factor =
                    RoundDiv(100 * Max(times.sql, times.nosql), Min(times.sql, times.nosql))
        /\ (times.sql = 10000 /\ times.nosql = 30000) =>
              comparison.faster = "sql" /\ comparison.speedup_factor = 300

\* lower(): the alphabet has the letters a, b, c, d, n, o, r, x, y in two cases
Lower(c) ==
    CASE c = "A" -> "a" [] c = "B" -> "b" [] c = "C" -> "c" [] c = "D" -> "d"
      [] OTHER -> c

\* PostgreSQL  text ILIKE '%' || pattern || '%':  "_" in the pattern matches any one
\* character, every other character of the alphabet matches itself in either case
ILikeContains(pattern, text) ==
    \E o \in 0..(Len(text) - Len(pattern)) :
        \A k \in 1..Len(pattern) :
            pattern[k] = "_" \/ Lower(pattern[k]) = Lower(text[o + k])

\* MongoDB  {"$regex": pattern, "$options": "i"}:  "." in the pattern matches any one
\* character, every other character of the alphabet matches itself in either case
RegexSearch(pattern, text) ==
    \E o \in 0..(Len(text) - Len(pattern)) :
        \A k \in 1..Len(pattern) :
            pattern[k] = "." \/ Lower(pattern[k]) = Lower(text[o + k])

\* str(n) for n >= 0, as character codes
RECURSIVE DigitCodes(_)
DigitCodes(n) == IF n < 10 THEN <<48 + n>> ELSE Append(DigitCodes(n \div 10), 48 + (n % 10))

TwoDigits(n) == <<48 + (n \div 10), 48 + (n % 10)>>

\* f"{year}-{mm}-{dd}"
DateString(year, month, day) ==
    DigitCodes(year) \o <<45>> \o TwoDigits(month) \o <<45>> \o TwoDigits(day)

\* s <= t for strings, by code points
RECURSIVE StrLeq(_, _)
StrLeq(s, t) ==
    IF s = <<>> THEN TRUE
    ELSE IF t = <<>> THEN FALSE
    ELSE IF Head(s) < Head(t) THEN TRUE
    ELSE IF Head(s) > Head(t) THEN FALSE
    ELSE StrLeq(Tail(s), Tail(t))

(***************************************************************************)
(* search_postgres                                                         *)
(***************************************************************************)
NullRow == <<>>

\* PgRatingRows with ratings joined by an inner JOIN
PgRatingRowsInnerJoin(c, m) ==
    {[rating_id |-> k, rating |-> c[m].ratings[k], null |-> FALSE] :
        k \in DOMAIN c[m].ratings}

\* rows of ratings r joined to movie m (LEFT JOIN: one NULL row when there is none)
PgRatingRows(c, m) ==
    IF c[m].ratings = <<>> THEN {[rating_id |-> 0, rating |-> 0, null |-> TRUE]}
    ELSE {[rating_id |-> k, rating |-> c[m].ratings[k], null |-> FALSE] :
              k \in DOMAIN c[m].ratings}

\* rows of movie_genres mg2 / genres g2 joined to movie m (LEFT JOIN)
PgDisplayGenreRows(c, m) == IF c[m].genres = {} THEN {NullRow} ELSE c[m].genres

\* rows of movie_genres mg / genres g that pass g.genre_name ILIKE %genre% (JOIN, only
\* with a genre filter)
PgGenreFilterRows(c, f, m) ==
    IF f.genre # <<>> THEN {g \in c[m].genres : ILikeContains(f.genre, g)} ELSE {NullRow}

\* rows of movie_cast mc / people p that pass p.name ILIKE %actor% (JOIN, only with an
\* actor filter)
PgActorFilterRows(c, f, m) ==
    IF f.actor # <<>> THEN {a \in c[m].cast : ILikeContains(f.actor, a)} ELSE {NullRow}

\* PgWhereMovie applying each year bound that is present on its own
PgWhereMovieOneSided(c, f, m) ==
    /\ f.title # <<>> => ILikeContains(f.title, c[m].title)
    /\ f.year_start # 0 => (c[m].date # NoDate /\ f.year_start <= c[m].date.year)
    /\ f.year_end # 0 => (c[m].date # NoDate /\ c[m].date.year <= f.year_end)

\* the conditions of WHERE on the movies row itself
PgWhereMovie(c, f, m) ==
    /\ f.title # <<>> => ILikeContains(f.title, c[m].title)
    /\ (f.year_start # 0 /\ f.year_end # 0) =>
           /\ c[m].date # NoDate
           /\ f.year_start <= c[m].date.year /\ c[m].date.year <= f.year_end

\* the joined rows of the group of movie m
PgJoinedRows(c, f, m) ==
    IF PgWhereMovie(c, f, m)
    THEN PgRatingRows(c, m) \X PgDisplayGenreRows(c, m)
            \X PgGenreFilterRows(c, f, m) \X PgActorFilterRows(c, f, m)
    ELSE {}

RECURSIVE SumRatings(_)
SumRatings(rows) ==
    IF rows = {} THEN 0
    ELSE LET r == CHOOSE x \in rows : TRUE
         IN  (IF r[1].null THEN 0 ELSE r[1].rating) + SumRatings(rows \ {r})

\* PgResultRow with COUNT(r.rating_id), counting the joined rows
PgResultRowCountRows(c, f, m) ==
    LET rows == PgJoinedRows(c, f, m)
        rated == {r \in rows : ~r[1].null}
    IN  [movie_id |-> m,
         popularity |-> IF c[m].popularity = NoPopularity THEN 0 ELSE c[m].popularity,
         avg_rating |-> IF rated = {} THEN [num |-> 0, den |-> 1]
                        ELSE [num |-> SumRatings(rated), den |-> Cardinality(rated)],
         num_ratings |-> Cardinality(rated)]

\* one output row: COALESCE(AVG(r.rating), 0) as a fraction, COUNT(DISTINCT r.rating_id)
PgResultRow(c, f, m) ==
    LET rows == PgJoinedRows(c, f, m)
        rated == {r \in rows : ~r[1].null}
    IN  [movie_id |-> m,
         popularity |-> IF c[m].popularity = NoPopularity THEN 0 ELSE c[m].popularity,
         avg_rating |-> IF rated = {} THEN [num |-> 0, den |-> 1]
                        ELSE [num |-> SumRatings(rated), den |-> Cardinality(rated)],
         num_ratings |-> Cardinality({r[1].rating_id : r \in rated})]

\* the movies that have a group in the result
PgQualifying(c, f) == {m \in DOMAIN c : PgJoinedRows(c, f, m) # {}}

\* a / b > c / d for fractions with positive denominators
FracGt(x, y) == x.num * y.den > y.num * x.den

\* row a must come before row b under ORDER BY (NULL popularity last)
SortsBefore(sort_by, a, b, c) ==
    IF OrderMode(sort_by) = "rating"
    THEN \/ FracGt(a.avg_rating, b.avg_rating)
         \/ /\ a.avg_rating.num * b.avg_rating.den = b.avg_rating.num * a.avg_rating.den
            /\ c[a.movie_id].popularity > c[b.movie_id].popularity
    ELSE c[a.movie_id].popularity > c[b.movie_id].popularity

\* the orders of the rows the engine may return them in
Orderings(rows, sort_by, c) ==
    {s \in [1..Cardinality(rows) -> rows] :
        /\ \A j, k \in DOMAIN s : j # k => s[j] # s[k]
        /\ \A j, k \in DOMAIN s : j < k => ~SortsBefore(sort_by, s[k], s[j], c)}

\* Take without the limit
TakeAll(s, n) == s

\* LIMIT n
Take(s, n) == SubSeq(s, 1, Min(n, Len(s)))

\* the results search_postgres may return
search_postgres(c, f) ==
    {Take(s, f.limit) :
        s \in Orderings({PgResultRow(c, f, m) : m \in PgQualifying(c, f)}, f.sort_by, c)}

(***************************************************************************)
(* search_mongo                                                            *)
(***************************************************************************)
ActorCap == 500

\* credits documents whose cast array has a name matching the actor regex
MongoCreditMatches(c, f) ==
    {m \in DOMAIN c : \E a \in c[m].cast : RegexSearch(f.actor, a)}

\* .limit(500): any ActorCap of the matching documents when there are more
MongoActorIds(c, f) ==
    IF Cardinality(MongoCreditMatches(c, f)) <= ActorCap
    THEN {MongoCreditMatches(c, f)}
    ELSE {ids \in SUBSET MongoCreditMatches(c, f) : Cardinality(ids) = ActorCap}

\* the $match stage; ids is tmdb_ids_from_actor, used only with an actor filter
MongoMatch(c, f, ids, m) ==
    /\ f.title # <<>> =>
           RegexSearch(f.title, c[m].title) \/ RegexSearch(f.title, c[m].original_title)
    /\ f.genre # <<>> => \E g \in c[m].genres : RegexSearch(f.genre, g)
    /\ (f.year_start # 0 /\ f.year_end # 0) =>
           /\ c[m].date # NoDate
           /\ StrLeq(DateString(f.year_start, 1, 1),
                     DateString(c[m].date.year, c[m].date.month, c[m].date.day))
           /\ StrLeq(DateString(c[m].date.year, c[m].date.month, c[m].date.day),
                     DateString(f.year_end, 12, 31))
    /\ f.actor # <<>> => m \in ids

\* $lookup of the movie's ratings, $avg (0 when there is none) and $size
MongoResultRow(c, m) ==
    [movie_id |-> m,
     popularity |-> IF c[m].popularity = NoPopularity THEN 0 ELSE c[m].popularity,
     avg_rating |-> IF c[m].ratings = <<>> THEN [num |-> 0, den |-> 1]
                    ELSE [num |-> SumSeq(c[m].ratings), den |-> Len(c[m].ratings)],
     num_ratings |-> Len(c[m].ratings)]

\* search_mongo without the early return: an empty id list adds no condition to $match
search_mongoNoShortCircuit(c, f) ==
    UNION { {[rows |-> Take(s, f.limit), aggregated |-> TRUE] :
                s \in Orderings({MongoResultRow(c, m) :
                                    m \in {x \in DOMAIN c :
                                              MongoMatch(c, [f EXCEPT !.actor =
                                                    IF ids = {} THEN <<>> ELSE @], ids, x)}},
                                f.sort_by, c)}
          : ids \in MongoActorIds(c, f) }

\* the results search_mongo may return, each with whether the pipeline was executed
search_mongo(c, f) ==
    UNION { IF f.actor # <<>> /\ ids = {}
            THEN {[rows |-> <<>>, aggregated |-> FALSE]}
            ELSE {[rows |-> Take(s, f.limit), aggregated |-> TRUE] :
                    s \in Orderings({MongoResultRow(c, m) :
                                        m \in {x \in DOMAIN c : MongoMatch(c, f, ids, x)}},
                                    f.sort_by, c)}
          : ids \in MongoActorIds(c, f) }

(***************************************************************************)
(* SpecSearch: both strategies on one catalog and one filter               *)
(***************************************************************************)
TitleFilters == {<<>>, <<"a">>, <<"x">>, <<"a", ".", "b">>}
GenreFilters == {<<>>, <<"d">>, <<"r">>}
ActorFilters == {<<>>, <<"n">>, <<"z">>}
YearFilters == {<<0, 0>>, <<1990, 2000>>, <<1990, 0>>, <<0, 2000>>, <<2, 2000>>}

Filters ==
    {[title |-> t, genre |-> g, actor |-> a, year_start |-> y[1], year_end |-> y[2],
      sort_by |-> o, limit |-> l] :
        t \in TitleFilters, g \in GenreFilters, a \in ActorFilters, y \in YearFilters,
        o \in SortInputs, l \in {1, SearchLimit}}

SearchInit ==
    /\ BenchInit /\ ReduceIdle /\ CompareIdle
    /\ ConnIdle /\ SessionIdle /\ RouteIdle /\ SingletonIdle
    /\ catalog \in Catalogs
    /\ filter \in Filters
    /\ pg_rows = Pending
    /\ mongo_rows = Pending
    /\ mongo_aggregated = FALSE

RunSearchPostgres ==
    /\ pg_rows = Pending
    /\ \E s \in search_postgres(catalog, filter) : pg_rows' = [rows |-> s]
    /\ UNCHANGED <<catalog, filter, mongo_rows, mongo_aggregated,
                   benchVars, reduceVars, compareVars, conn_state, sessionVars,
                   routeVars, singletonVars>>

RunSearchMongo ==
    /\ mongo_rows = Pending
    /\ \E r \in search_mongo(catalog, filter) :
          /\ mongo_rows' = [rows |-> r.rows]
          /\ mongo_aggregated' = r.aggregated
    /\ UNCHANGED <<catalog, filter, pg_rows, benchVars, reduceVars, compareVars,
                   conn_state, sessionVars, routeVars, singletonVars>>

SearchNext == RunSearchPostgres \/ RunSearchMongo

SpecSearch == SearchInit /\ [][SearchNext]_vars

MovieIds(result) == {result.rows[k].movie_id : k \in DOMAIN result.rows}

\* C10: for every filter and every catalog held by both stores, search_postgres and
\* search_mongo return the same set of movie identifiers when the limit is at
\* least the number of movies.
C10_SameMovieIds ==
    (pg_rows # Pending /\ mongo_rows # Pending /\ filter.limit >= Len(catalog)) =>
        MovieIds(pg_rows) = MovieIds(mongo_rows)

\* the fraction q is the mean of the ratings
IsMeanOf(q, ratings) == q.den > 0 /\ q.num * Len(ratings) = SumSeq(ratings) * q.den

\* a movie with exactly the ratings 4 and 8 is reported with avgRating 6.0, numRatings 2
SixOverTwo(result) ==
    \A k \in DOMAIN result.rows :
        catalog[result.rows[k].movie_id].ratings = <<4, 8>> =>
            /\ result.rows[k].avg_rating.num = 6 * result.rows[k].avg_rating.den
            /\ result.rows[k].num_ratings = 2

\* C11: for every movie returned by search_postgres, whatever the fan-out of the
\* joins on genres, matching genres and matching cast members, numRatings is the
\* number of distinct ratings of the movie and avgRating the mean of all of them;
\* both strategies report avgRating = 6.0 and numRatings = 2 for a movie with
\* exactly the ratings 4 and 8.
C11_FanOutKeepsRatings ==
    /\ pg_rows # Pending =>
          /\ \A k \in DOMAIN pg_rows.rows :
                LET r == pg_rows.rows[k]
                    ratings == catalog[r.movie_id].ratings
                IN  /\ r.num_ratings = Len(ratings)
                    /\ ratings # <<>> => IsMeanOf(r.avg_rating, ratings)
          /\ SixOverTwo(pg_rows)
    /\ mongo_rows # Pending => SixOverTwo(mongo_rows)

C11_Witness ==
    /\ pg_rows # Pending /\ mongo_rows # Pending
    /\ filter.genre = <<"r">> /\ filter.actor = <<"n">>
    /\ \E k \in DOMAIN pg_rows.rows :
          /\ catalog[pg_rows.rows[k].movie_id].ratings = <<4, 8>>
          /\ Cardinality(PgJoinedRows(catalog, filter, pg_rows.rows[k].movie_id)) = 16
          /\ pg_rows.rows[k].num_ratings = 2
    /\ \E k \in DOMAIN mongo_rows.rows : mongo_rows.rows[k].num_ratings = 2

\* movie m passes the filter as search_postgres / search_mongo state it
SatisfiesPg(m) ==
    /\ PgWhereMovie(catalog, filter, m)
    /\ filter.genre # <<>> => \E g \in catalog[m].genres : ILikeContains(filter.genre, g)
    /\ filter.actor # <<>> => \E a \in catalog[m].cast : ILikeContains(filter.actor, a)

SatisfiesMongo(m) == MongoMatch(catalog, filter, MongoCreditMatches(catalog, filter), m)

HasRowOf(result, m) == \E k \in DOMAIN result.rows : result.rows[k].movie_id = m

ZeroRated(result, m) ==
    \A k \in DOMAIN result.rows :
        result.rows[k].movie_id = m =>
            /\ result.rows[k].avg_rating = [num |-> 0, den |-> 1]
            /\ result.rows[k].num_ratings = 0

\* C12: a movie that has no ratings and satisfies the filter (within the limit)
\* appears in the output of search_postgres and of search_mongo with avgRating = 0
\* and numRatings = 0; it is never omitted.
C12_UnratedMovieReported ==
    \A m \in DOMAIN catalog :
        catalog[m].ratings = <<>> =>
            /\ pg_rows # Pending =>
                  /\ (SatisfiesPg(m) /\ filter.limit >= Len(catalog)) => HasRowOf(pg_rows, m)
                  /\ ZeroRated(pg_rows, m)
            /\ mongo_rows # Pending =>
                  /\ (SatisfiesMongo(m) /\ filter.limit >= Len(catalog)) =>
                         HasRowOf(mongo_rows, m)
                  /\ ZeroRated(mongo_rows, m)

C12_Witness ==
    /\ pg_rows # Pending /\ mongo_rows # Pending
    /\ \E m \in DOMAIN catalog :
          /\ catalog[m].ratings = <<>>
          /\ HasRowOf(pg_rows, m) /\ HasRowOf(mongo_rows, m)
          /\ ZeroRated(pg_rows, m) /\ ZeroRated(mongo_rows, m)

NoFilterSet ==
    /\ filter.title = <<>> /\ filter.genre = <<>> /\ filter.actor = <<>>
    /\ filter.year_start = 0 /\ filter.year_end = 0

\* row a may stand before row b: by popularity descending with absent popularity
\* last, under 'rating' by avgRating descending first
InOrder(a, b) ==
    LET byPopularity ==
            /\ catalog[a.movie_id].popularity = NoPopularity =>
                   catalog[b.movie_id].popularity = NoPopularity
            /\ a.popularity >= b.popularity
    IN  IF filter.sort_by = "rating"
        THEN \/ a.avg_rating.num * b.avg_rating.den > b.avg_rating.num * a.avg_rating.den
             \/ /\ a.avg_rating.num * b.avg_rating.den = b.avg_rating.num * a.avg_rating.den
                /\ byPopularity
        ELSE byPopularity

WellFormedResult(result) ==
    /\ Len(result.rows) <= filter.limit
    /\ \A j, k \in DOMAIN result.rows : j < k => InOrder(result.rows[j], result.rows[k])
    /\ \A k \in DOMAIN result.rows :
          /\ result.rows[k].avg_rating.den > 0
          /\ result.rows[k].avg_rating.num >= 0
          /\ result.rows[k].num_ratings >= 0

\* C13: with no filter set, for every sort mode and limit, each strategy returns at
\* most limit rows ordered by the requested mode, every row with a non-null
\* avgRating >= 0 and numRatings >= 0.
C13_SortedLimitedNonNull ==
    NoFilterSet =>
        /\ pg_rows # Pending => WellFormedResult(pg_rows)
        /\ mongo_rows # Pending => WellFormedResult(mongo_rows)

C13_Witness ==
    /\ NoFilterSet /\ filter.limit = 1 /\ filter.sort_by = "rating"
    /\ Len(catalog) = 2
    /\ pg_rows # Pending /\ mongo_rows # Pending
    /\ Len(pg_rows.rows) = 1 /\ Len(mongo_rows.rows) = 1
    /\ catalog[pg_rows.rows[1].movie_id].ratings = <<7>>

\* C14: search_mongo called with an actor filter that matches no credits document
\* returns an empty list without executing the aggregation pipeline.
C14_NoActorNoAggregation ==
    (mongo_rows # Pending /\ filter.actor # <<>>
        /\ MongoCreditMatches(catalog, filter) = {}) =>
        /\ mongo_rows.rows = <<>>
        /\ ~mongo_aggregated

C14_Witness ==
    /\ mongo_rows # Pending
    /\ filter.actor = <<"z">> /\ filter.title = <<>> /\ filter.genre = <<>>
    /\ filter.year_start = 0
    /\ mongo_rows.rows = <<>>
    /\ ~mongo_aggregated

(***************************************************************************)
(* Claims on Spec: timing boundary, sort mode, input validation             *)
(***************************************************************************)
ListTestTypes == KnownTestTypes \ {"deep_fetch"}

\* calls that send a query to an engine, and calls that read a whole result set
QueryCalls == {"execute", "find", "find_one", "aggregate"}
Materializations == {"fetchall", "list"}

\* C15: each timed sample of benchmark_run starts immediately before the query call
\* is issued and ends only after the full result set has been materialized, for
\* both engines and every list-returning test type; nothing is read after the
\* clock stops and no sample ends after the first row only.
C15_SampleCoversFullResult ==
    (lastCall.timed /\ data.test_type \in ListTestTypes) =>
        LET t == lastCall.trace
        IN  /\ Len(t) >= 4
            /\ t[1] = "perf_counter" /\ t[2] \in QueryCalls
            /\ t[Len(t) - 1] \in Materializations /\ t[Len(t)] = "perf_counter"
            /\ \A k \in 2..(Len(t) - 1) : t[k] \notin {"perf_counter", "fetchone"}
            /\ \A k \in 2..(Len(t) - 2) :
                  t[k] \in {"execute", "find", "aggregate"} =>
                      t[k + 1] \in Materializations

C15_Witness ==
    /\ lastCall.timed /\ lastCall.engine = "mongodb" /\ lastCall.phase = "measure"
    /\ data.test_type = "genre"
    /\ lastCall.trace = <<"perf_counter", "find", "list", "perf_counter">>
    /\ Len(mongo_latencies) = 2

\* the sort mode of the current request as the caller sent it
RequestedSort == IF args # NoArgs THEN args.sort_by ELSE data.sort_by

\* C16: a sort mode that is not 'popularity' or 'rating' is treated as 'popularity'
\* on every path that reaches a query strategy (interactive search handlers and
\* the combined benchmark test), and the request does not fail because of it.
C16_UnknownSortIsPopularity ==
    (lastCall.filter.order # "" /\ RequestedSort \notin {"popularity", "rating"}) =>
        /\ lastCall.filter.order = "popularity"
        /\ (pc = "done" /\ failure = NoFailure) =>
              response.status = 200 /\ response.error = ""

C16_Witness ==
    /\ pc = "done" /\ failure = NoFailure
    /\ data.test_type = "combined" /\ data.sort_by = "bogus"
    /\ lastCall.engine = "mongodb" /\ lastCall.phase = "measure"
    /\ lastCall.filter.order = "popularity"
    /\ response.status = 200

InvalidIntField(d) ==
    \E x \in {d.year_from, d.year_to, d.runs, d.limit} : x.kind = "text"

\* C17: a benchmark request whose year_from, year_to, runs or limit is not valid
\* integer text gets a 4xx response that reports the error, not a 5xx server
\* error, and no query is run.
C17_InvalidIntegerIs4xx ==
    (pc = "done" /\ data # NoRequest /\ InvalidIntField(data)) =>
        /\ response.status \in 400..499
        /\ response.error # ""
        /\ executed = NoneExecuted

\* C18: on the interactive search path a year_start or year_end that is not valid
\* integer text is treated as no year filter: the search still runs and the
\* request does not fail.
C18_InvalidYearIsNoFilter ==
    (pc = "done" /\ args # NoArgs /\ args.submitted
        /\ (args.year_start.kind = "text" \/ args.year_end.kind = "text")) =>
        /\ response.status = 200
        /\ executed[SearchEngine(args)]["search"] = 1

\* C19: when the query strategy raises during an interactive search, the handler
\* renders an empty result list together with an error message, never a partial
\* row set.
C19_SearchErrorRendersNoRows ==
    (pc = "done" /\ args # NoArgs /\ failure.phase = "search") =>
        /\ response.movies = 0
        /\ response.error # ""
        /\ response.status = 200

C19_Witness ==
    /\ pc = "done" /\ args # NoArgs
    /\ args.handler = "user_advanced_search"
    /\ failure = [engine |-> "postgres", phase |-> "search"]
    /\ response.movies = 0 /\ response.error = "Search error"

\* C20: every filter that reaches a query strategy with both year bounds present
\* has yearStart <= yearEnd.
C20_YearBoundsOrdered ==
    (lastCall.filter.year_start.kind = "int" /\ lastCall.filter.year_end.kind = "int") =>
        lastCall.filter.year_start.val <= lastCall.filter.year_end.val

(***************************************************************************)
(* Claims on SpecSearch and SpecReduce: one-sided year range, reducer      *)
(***************************************************************************)
OneSidedYear == (filter.year_start = 0) # (filter.year_end = 0)

\* movie m passes the title, genre and actor conditions of each strategy
PassesOtherPg(m) ==
    /\ filter.title # <<>> => ILikeContains(filter.title, catalog[m].title)
    /\ filter.genre # <<>> => \E g \in catalog[m].genres : ILikeContains(filter.genre, g)
    /\ filter.actor # <<>> => \E a \in catalog[m].cast : ILikeContains(filter.actor, a)

PassesOtherMongo(m) ==
    /\ filter.title # <<>> =>
           \/ RegexSearch(filter.title, catalog[m].title)
           \/ RegexSearch(filter.title, catalog[m].original_title)
    /\ filter.genre # <<>> => \E g \in catalog[m].genres : RegexSearch(filter.genre, g)
    /\ filter.actor # <<>> => \E a \in catalog[m].cast : RegexSearch(filter.actor, a)

\* C26: in search_postgres and in search_mongo the year restriction applies only
\* when both year_start and year_end are present and non-zero; with exactly one
\* bound the year filter is dropped and movies of every year (and without a date)
\* qualify, in both strategies.
C26_OneSidedYearDropped ==
    (OneSidedYear /\ filter.limit >= Len(catalog)) =>
        /\ pg_rows # Pending =>
              MovieIds(pg_rows) = {m \in DOMAIN catalog : PassesOtherPg(m)}
        /\ mongo_rows # Pending =>
              MovieIds(mongo_rows) = {m \in DOMAIN catalog : PassesOtherMongo(m)}

C26_Witness ==
    /\ filter.year_start = 0 /\ filter.year_end = 2000
    /\ filter.title = <<>> /\ filter.genre = <<>> /\ filter.actor = <<>>
    /\ pg_rows # Pending /\ mongo_rows # Pending
    /\ \E m \in DOMAIN catalog :
          /\ catalog[m].date.year = 2005
          /\ m \in MovieIds(pg_rows) /\ m \in MovieIds(mongo_rows)
    /\ \E m \in DOMAIN catalog :
          /\ catalog[m].date = NoDate
          /\ m \in MovieIds(pg_rows) /\ m \in MovieIds(mongo_rows)

\* C30: for every sample list of 5 to 200 samples calc_metrics takes p95 from inside
\* the sorted list, and min <= median <= max, min <= avg <= max, min <= p95 <= max,
\* runs = number of samples, total = sum of the samples (to three decimals).
C30_MetricsWithinBounds ==
    (Reduced /\ Len(samples) \in 5..200) =>
        /\ \E k \in DOMAIN samples :
              metrics.p95_latency_ms = RoundDiv(samples[k], TicksPerUnit)
        /\ metrics.min_latency_ms <= metrics.median_latency_ms
        /\ metrics.median_latency_ms <= metrics.max_latency_ms
        /\ metrics.min_latency_ms <= metrics.avg_latency_ms
        /\ metrics.avg_latency_ms <= metrics.max_latency_ms
        /\ metrics.min_latency_ms <= metrics.p95_latency_ms
        /\ metrics.p95_latency_ms <= metrics.max_latency_ms
        /\ metrics.runs = Len(samples)
        /\ metrics.total_time_ms = RoundDiv(TotalTicks, TicksPerUnit)

C30_Witness ==
    /\ Reduced
    /\ Len(samples) = 100
    /\ metrics.runs = 100
    /\ metrics.min_latency_ms < metrics.p95_latency_ms
    /\ metrics.p95_latency_ms < metrics.max_latency_ms

(***************************************************************************)
(* Claims on Spec: read-only triggers, explain, the shared connection      *)
(***************************************************************************)
\* C21: the benchmark trigger and the search trigger are read-only: after any
\* sequence of benchmark_run, combined_search and user_advanced_search requests,
\* failing ones included, the catalog data of both stores is unchanged.
C21_TriggersAreReadOnly == [][catalog' = catalog]_vars

C21_Witness ==
    /\ BenchmarkSucceeded
    /\ data.test_type = "combined" /\ data.sort_by = "rating"
    /\ executed["postgres"]["measure"] = 5 /\ executed["mongodb"]["measure"] = 5
    /\ catalog = SeededCatalog
    /\ \A m \in DOMAIN catalog : catalog[m].ratings = <<4, 8>>

\* no step that issues an explain touches the samples or the result counts, and it
\* comes after both measurement loops
C24_ExplainStep ==
    \A e \in Engines :
        Issues(e, "explain") =>
            /\ data.include_explain
            /\ executed["postgres"]["measure"] = runs
            /\ executed["mongodb"]["measure"] = runs
            /\ UNCHANGED <<pg_latencies, mongo_latencies, pg_result_count,
                           mongo_result_count>>

C25_ConnectionStep ==
    /\ (failure' # failure /\ failure'.engine = "postgres") => conn_state' = "aborted"
    /\ (conn_state = "aborted" /\ conn_state' # "aborted") => (pc = "idle" /\ pc' = "idle")
    /\ (conn_state = "aborted" /\ \E p \in Phases : Issues("postgres", p)) =>
          (failure'.engine = "postgres" /\ pc' = "done")

\* C25: after a relational query error inside benchmark_run or the search handlers
\* no path of these handlers commits or rolls back the shared connection: it stays
\* aborted, and relational queries of later requests fail until another handler
\* rolls it back.
C25_AbortedTransactionPersists == [][C25_ConnectionStep]_vars

C25_Witness ==
    /\ conn_state = "aborted"
    /\ pc = "done" /\ data.test_type = "genre"
    /\ failure = [engine |-> "postgres", phase |-> "warmup"]
    /\ executed["postgres"]["warmup"] = 1
    /\ response.status = 500

(***************************************************************************)
(* SpecSession: switch_database and the interactive search handlers under  *)
(* the database type of the session                                        *)
(***************************************************************************)
\* DB_TYPE of the environment, lower-cased: any text
DefaultDbTypes == DbTypes

\* the db_type field of the form: absent, or any text
FormDbTypes == {NoForm, "postgres", "PostgreSQL", "MongoDB", "mongo", "mysql"}

\* str.lower() on the values above
LowerName(v) ==
    CASE v = "PostgreSQL" -> "postgresql" [] v = "MongoDB" -> "mongodb" [] OTHER -> v

ValidDbTypes == {"postgres", "postgresql", "mongodb", "mongo"}

\* session.get('db_type', DEFAULT_DB_TYPE)
CurrentDbType == IF session = SessionUnset THEN DEFAULT_DB_TYPE ELSE session

get_db_display_name ==
    IF CurrentDbType \in {"postgres", "postgresql"} THEN "PostgreSQL" ELSE "MongoDB"

is_using_mongodb == CurrentDbType \in {"mongodb", "mongo"}

\* NormalizeDbType storing the value as it was sent
NormalizeDbTypeAsGiven(v) == v

\* 'postgresql' becomes 'postgres', 'mongo' becomes 'mongodb'
NormalizeDbType(v) ==
    CASE v \in {"postgres", "postgresql"} -> "postgres"
      [] v \in {"mongodb", "mongo"} -> "mongodb"
      [] OTHER -> v

\* request.form.get('db_type', DEFAULT_DB_TYPE).lower()
RequestedDbType(v) == LowerName(IF v = NoForm THEN DEFAULT_DB_TYPE ELSE v)

\* one POST /switch-database, run to its redirect
switch_database(v) ==
    /\ pc = "idle"
    /\ form' = v
    /\ session' = IF RequestedDbType(v) \in ValidDbTypes
                  THEN NormalizeDbType(RequestedDbType(v))
                  ELSE session
    /\ UNCHANGED <<DEFAULT_DB_TYPE, benchVars, reduceVars, compareVars, searchVars,
                   conn_state, routeVars, singletonVars>>

\* an interactive search under the database type the session gives
SessionSearch(q) ==
    /\ q.db_type = CurrentDbType
    /\ InteractiveSearch(q)

SessionInit ==
    /\ BenchInit /\ ReduceIdle /\ CompareIdle /\ SearchSeeded
    /\ ConnIdle /\ RouteIdle /\ SingletonIdle
    /\ session = SessionUnset
    /\ DEFAULT_DB_TYPE \in DefaultDbTypes
    /\ form = NoForm

SessionNext ==
    \/ \E v \in FormDbTypes : switch_database(v)
    \/ \E q \in SearchRequests : SessionSearch(q)
    \/ NextRequest

SpecSession == SessionInit /\ [][SessionNext]_vars

\* C22: user_advanced_search always queries the relational engine, whatever
\* database type the session holds after any sequence of switch_database requests;
\* it never calls search_mongo.
C22_UserSearchIsRelational ==
    args.handler = "user_advanced_search" =>
        /\ executed["mongodb"]["search"] = 0
        /\ lastCall # NoCall => lastCall.engine = "postgres"

C22_Witness ==
    /\ session = "mongodb"
    /\ pc = "done" /\ args.handler = "user_advanced_search"
    /\ failure = NoFailure
    /\ executed["postgres"]["search"] = 1
    /\ lastCall.engine = "postgres"

C27_SwitchStep ==
    session' # session =>
        /\ RequestedDbType(form') \in ValidDbTypes
        /\ session' = IF RequestedDbType(form') \in {"postgres", "postgresql"}
                      THEN "postgres" ELSE "mongodb"

\* C27: after any sequence of switch_database requests the session's db_type, once
\* set, is exactly 'postgres' or 'mongodb' (aliases are normalised), and a request
\* with any other value leaves it unchanged.
C27_SessionDbTypeCanonical ==
    /\ [](session \in {SessionUnset, "postgres", "mongodb"})
    /\ [][C27_SwitchStep]_vars

C27_Witness ==
    /\ session = "mongodb"
    /\ form = "mysql"
    /\ DEFAULT_DB_TYPE = "postgresql"

\* C28: for every db_type value the application can hold, combined_search queries
\* the document engine exactly when is_using_mongodb() is true and
\* get_db_display_name() is 'MongoDB', and the relational engine otherwise.
C28_DispatchAgreesWithHelpers ==
    (pc = "done" /\ args.handler = "combined_search" /\ lastCall # NoCall) =>
        (lastCall.engine = "mongodb"
            <=> (is_using_mongodb /\ get_db_display_name = "MongoDB"))

\* C23: the /benchmark endpoint of compare_routes returns latency statistics (min,
\* max, avg, p50, p95, p99) for both engines for every request it accepts: for each
\* accepted query_type ('top_movies' and 'trending') and every admitted iterations
\* value, computed from exactly `iterations` samples per engine.
C23_BenchmarkRouteReturnsStats ==
    (/\ route_response # Pending
     /\ route_data.query_type \in {"top_movies", "trending"}
     /\ ParseInt(route_data.iterations, 10).ok
     /\ ParseInt(route_data.iterations, 10).val >= 1) =>
        /\ route_response.status = 200
        /\ route_response.iterations = Min(ParseInt(route_data.iterations, 10).val, 100)
        /\ route_response.samples.sql = route_response.iterations
        /\ route_response.samples.nosql = route_response.iterations
        /\ route_response.sql.min <= route_response.sql.p50
        /\ route_response.sql.p50 <= route_response.sql.p95
        /\ route_response.sql.p95 <= route_response.sql.p99
        /\ route_response.sql.p99 <= route_response.sql.max
        /\ route_response.nosql.min <= route_response.nosql.avg
        /\ route_response.nosql.avg <= route_response.nosql.max

(***************************************************************************)
(* SpecSingleton: get_mongo_connection and close_mongo_connection called   *)
(* by the request threads of one process.  Instances are numbered from 1;  *)
(* 0 is None.  live and thread_got record, since the last close, the       *)
(* instances constructed and the instance each caller was handed.          *)
(***************************************************************************)
MaxInstances == 3     \* no new call starts once this many instances were constructed

SingletonInit ==
    /\ BenchInit /\ ReduceIdle /\ CompareIdle /\ SearchIdle
    /\ ConnIdle /\ SessionIdle /\ RouteIdle /\ SingletonIdle

SingletonFrame ==
    UNCHANGED <<benchVars, reduceVars, compareVars, searchVars, conn_state,
                sessionVars, routeVars>>

\* a request thread enters get_mongo_connection()
CallGetMongoConnection(t) ==
    /\ thread_pc[t] = "idle"
    /\ instances < MaxInstances
    /\ thread_pc' = [thread_pc EXCEPT ![t] = "check"]
    /\ UNCHANGED <<mongo_connection, thread_got, instances, live>>
    /\ SingletonFrame

\* if _mongo_connection is None:
CheckIsNone(t) ==
    /\ thread_pc[t] = "check"
    /\ thread_pc' = [thread_pc EXCEPT ![t] = IF mongo_connection = 0 THEN "create"
                                              ELSE "return"]
    /\ UNCHANGED <<mongo_connection, thread_got, instances, live>>
    /\ SingletonFrame

\* _mongo_connection = MongoDBConnection()
CreateConnection(t) ==
    /\ thread_pc[t] = "create"
    /\ instances' = instances + 1
    /\ mongo_connection' = instances + 1
    /\ live' = live \cup {instances + 1}
    /\ thread_pc' = [thread_pc EXCEPT ![t] = "return"]
    /\ UNCHANGED thread_got
    /\ SingletonFrame

\* return _mongo_connection
ReturnConnection(t) ==
    /\ thread_pc[t] = "return"
    /\ thread_got' = [thread_got EXCEPT ![t] = mongo_connection]
    /\ thread_pc' = [thread_pc EXCEPT ![t] = "idle"]
    /\ UNCHANGED <<mongo_connection, instances, live>>
    /\ SingletonFrame

\* close_mongo_connection() with a connection set
close_mongo_connection ==
    /\ mongo_connection # 0
    /\ mongo_connection' = 0
    /\ live' = {}
    /\ thread_got' = [t \in Threads |-> 0]
    /\ UNCHANGED <<thread_pc, instances>>
    /\ SingletonFrame

SingletonNext ==
    \/ \E t \in Threads : CallGetMongoConnection(t)
    \/ \E t \in Threads : CheckIsNone(t)
    \/ \E t \in Threads : CreateConnection(t)
    \/ \E t \in Threads : ReturnConnection(t)
    \/ close_mongo_connection

SpecSingleton == SingletonInit /\ [][SingletonNext]_vars

\* C29: get_mongo_connection creates at most one MongoDBConnection per process
\* between calls of close_mongo_connection, and every caller receives that same
\* instance, also when several request threads call it concurrently for the first
\* time.
C29_OneConnectionBetweenCloses ==
    /\ Cardinality(live) <= 1
    /\ \A t \in Threads, u \in Threads :
          (thread_got[t] # 0 /\ thread_got[u] # 0) => thread_got[t] = thread_got[u]

====
